---- MODULE Spec2Model ----
(***************************************************************************)
(* ecr-watch (src/main.go): one sequential process that resolves its       *)
(* configuration, then polls an ECR repository (paginated ListImages, one  *)
(* DescribeImages), selects the newest matching image and exits when it is *)
(* newer than the one stored by the previous poll.                         *)
(*                                                                         *)
(* Strings are sequences of one-character strings, pointers (to a string,  *)
(* NextToken) are sequences of length 0 (nil) or 1, time.Time values are   *)
(* naturals with 0 the zero time.                                          *)
(***************************************************************************)
EXTENDS Naturals, Integers, Sequences, FiniteSets

(* ------------------------------ bounds -------------------------------- *)
MaxCycles == 3     \* poll cycles explored (the loop itself is unbounded)
MaxTime == 2       \* push timestamps range over 0..MaxTime
MaxPages == 2      \* pages of one listing

(* ------------------------- values and helpers ------------------------- *)
ZeroTime == 0

NilPtr == <<>>
Ptr(v) == <<v>>

Range(s) == {s[i] : i \in 1..Len(s)}

\* aws.StringValue: the pointed-to string, "" for a nil pointer
StringValue(p) == IF p = NilPtr THEN <<>> ELSE p[1]

\* time.Time.After / time.Time.IsZero
After(t, u) == t > u
IsZero(t) == t = ZeroTime

\* strings.Join(elems, ",")
RECURSIVE Join(_)
Join(elems) ==
    IF elems = <<>> THEN <<>>
    ELSE IF Len(elems) = 1 THEN elems[1]
    ELSE elems[1] \o <<",">> \o Join(Tail(elems))

(* ------------------------------- regexp ------------------------------ *)
\* regexp.Compile on the subset: an optional leading caret, then literal
\* characters or dots, each optionally starred, then an optional trailing
\* dollar. A star with nothing to repeat is a syntax error.
RECURSIVE SyntaxOK(_)
SyntaxOK(s) ==
    IF s = <<>> THEN TRUE
    ELSE IF s[1] = "*" THEN FALSE
    ELSE IF Len(s) >= 2 /\ s[2] = "*" THEN SyntaxOK(SubSeq(s, 3, Len(s)))
    ELSE SyntaxOK(Tail(s))

RECURSIVE ParseAtoms(_)
ParseAtoms(s) ==
    IF s = <<>> THEN <<>>
    ELSE IF Len(s) >= 2 /\ s[2] = "*"
         THEN <<[c |-> s[1], star |-> TRUE]>> \o ParseAtoms(SubSeq(s, 3, Len(s)))
    ELSE <<[c |-> s[1], star |-> FALSE]>> \o ParseAtoms(Tail(s))

StripBol(s) == IF s # <<>> /\ s[1] = "^" THEN Tail(s) ELSE s
StripEol(s) == IF s # <<>> /\ s[Len(s)] = "$" THEN SubSeq(s, 1, Len(s) - 1) ELSE s

CompileOK(src) == SyntaxOK(StripEol(StripBol(src)))

Compile(src) ==
    [bol   |-> src # <<>> /\ src[1] = "^",
     eol   |-> StripBol(src) # <<>> /\ StripBol(src)[Len(StripBol(src))] = "$",
     atoms |-> ParseAtoms(StripEol(StripBol(src)))]

NoRegexp == [bol |-> FALSE, eol |-> FALSE, atoms |-> <<>>]

RECURSIVE MatchHere(_, _, _)
RECURSIVE MatchStar(_, _, _, _)
MatchHere(atoms, eol, text) ==
    IF atoms = <<>> THEN (~eol \/ text = <<>>)
    ELSE IF Head(atoms).star THEN MatchStar(Head(atoms).c, Tail(atoms), eol, text)
    ELSE /\ text # <<>>
         /\ (Head(atoms).c = "." \/ Head(atoms).c = Head(text))
         /\ MatchHere(Tail(atoms), eol, Tail(text))
MatchStar(c, atoms, eol, text) ==
    \/ MatchHere(atoms, eol, text)
    \/ /\ text # <<>>
       /\ (c = "." \/ c = Head(text))
       /\ MatchStar(c, atoms, eol, Tail(text))

\* regexp.MatchString: search semantics, the match may start anywhere
\* unless the pattern begins with ^
MatchString(re, text) ==
    IF re.bol THEN MatchHere(re.atoms, re.eol, text)
    ELSE \E k \in 0..Len(text) : MatchHere(re.atoms, re.eol, SubSeq(text, k + 1, Len(text)))

(* --------------------------- configuration ---------------------------- *)
\* tags: "a" plays the part of "latest", "ab" of "latest-2"
TagA == <<"a">>
TagB == <<"b">>
TagAB == <<"a", "b">>

\* default of TAG_PATTERN, anchored on both sides
DefaultTagPattern == <<"^", "a", "$">>
DefaultInterval == "30s"

\* time.ParseDuration on the values used here; -1 stands for a parse error
ParseDuration(s) ==
    CASE s = "30s" -> 30
      [] s = "1s" -> 1
      [] OTHER -> -1

\* The environment: every key is unset (nil) or set to a value.
Envs ==
    [Repository : {NilPtr, Ptr("repo")},
     TagPattern : {NilPtr, Ptr(<<"a">>), Ptr(<<".", "*">>), Ptr(<<"*">>)},
     Interval   : {NilPtr, Ptr("1s"), Ptr("soon")}]

\* envconfig: a set key gives its value, an unset key its default
Lookup(p, default) == IF p = NilPtr THEN default ELSE p[1]

\* envconfig.Process fails on a required key without value or default, or on
\* a value that does not parse
ProcessOK(e) ==
    /\ e.Repository # NilPtr
    /\ ParseDuration(Lookup(e.Interval, DefaultInterval)) >= 0

Processed(e) ==
    [Repository |-> Lookup(e.Repository, ""),
     TagPattern |-> Lookup(e.TagPattern, DefaultTagPattern),
     Interval   |-> ParseDuration(Lookup(e.Interval, DefaultInterval))]

ZeroConfig == [Repository |-> "", TagPattern |-> <<>>, Interval |-> 0]

(* ------------------------------ registry ------------------------------ *)
\* The repository's images: digest d1 carries tags a and b, d2 carries ab,
\* d3 is untagged.
ImageTagsOf(d) ==
    CASE d = "d1" -> <<TagA, TagB>>
      [] d = "d2" -> <<TagAB>>
      [] OTHER -> <<>>

IdA == [imageDigest |-> "d1", imageTag |-> Ptr(TagA)]
IdB == [imageDigest |-> "d1", imageTag |-> Ptr(TagB)]
IdAB == [imageDigest |-> "d2", imageTag |-> Ptr(TagAB)]
IdNil == [imageDigest |-> "d3", imageTag |-> NilPtr]

\* the pages ListImages may return
Pages == {<<>>, <<IdA, IdAB>>, <<IdNil, IdB>>}

\* the digests of ids, each once, in order of first occurrence
RECURSIVE Digests(_)
Digests(ids) ==
    IF ids = <<>> THEN <<>>
    ELSE LET rest == Digests(SubSeq(ids, 1, Len(ids) - 1))
             d == ids[Len(ids)].imageDigest
         IN IF d \in Range(rest) THEN rest ELSE Append(rest, d)

\* what DescribeImages may answer for ids: one detail per requested image,
\* each with the image's full tag set and any push timestamp (0: none)
Answers(ids) ==
    LET ds == Digests(ids)
    IN {[i \in 1..Len(ds) |-> [imagePushedAt |-> f[i], imageTags |-> ImageTagsOf(ds[i])]] :
            f \in [1..Len(ds) -> 0..MaxTime]}

(* -------------------------------- state ------------------------------- *)
VARIABLES
    pc,                              \* position in main
    help,                            \* the -h flag
    env,                             \* the process environment
    config,                          \* var config
    tagRegexp,                       \* the compiled TAG_PATTERN
    err,                             \* which call returned a non-nil error
    exitCode,                        \* -1 while running
    stdout,                          \* the strings written by fmt.Print
    usage,                           \* envconfig.Usage has printed the schema
    mostRecentImagePushedAt,
    imageIDs,
    nextToken,                       \* listImagesInput.NextToken
    imageDetails,                    \* describeImagesOutput.ImageDetails
    currentMostRecentImagePushedAt,
    currentMostRecentImageTags,
    slept,                           \* the durations passed to time.Sleep
    cycle,                           \* history: number of the poll cycle
    calls,                           \* history: registry calls of this cycle
    served,                          \* history: pages listed in this cycle
    storedBefore,                    \* history: stored timestamp before the last comparison
    firstObserved,                   \* history: newest timestamp of the first poll cycle
    everMatched                      \* history: some identifier has matched

vars == <<pc, help, env, config, tagRegexp, err, exitCode, stdout, usage,
          mostRecentImagePushedAt, imageIDs, nextToken, imageDetails,
          currentMostRecentImagePushedAt, currentMostRecentImageTags, slept,
          cycle, calls, served, storedBefore, firstObserved, everMatched>>

startupVars == <<help, env, config, tagRegexp, usage>>
loopVars == <<mostRecentImagePushedAt, imageIDs, nextToken, imageDetails,
              currentMostRecentImagePushedAt, currentMostRecentImageTags>>
historyVars == <<cycle, calls, served, storedBefore, firstObserved, everMatched>>

Init ==
    /\ pc = "flags"
    /\ help \in BOOLEAN
    /\ env \in Envs
    /\ config = ZeroConfig
    /\ tagRegexp = NoRegexp
    /\ err = "nil"
    /\ exitCode = -1
    /\ stdout = <<>>
    /\ usage = FALSE
    /\ mostRecentImagePushedAt = ZeroTime
    /\ imageIDs = <<>>
    /\ nextToken = NilPtr
    /\ imageDetails = <<>>
    /\ currentMostRecentImagePushedAt = ZeroTime
    /\ currentMostRecentImageTags = <<>>
    /\ slept = <<>>
    /\ cycle = 0
    /\ calls = <<>>
    /\ served = <<>>
    /\ storedBefore = ZeroTime
    /\ firstObserved = ZeroTime
    /\ everMatched = FALSE

\* logger.Fatal: log and os.Exit(1)
Fatal(e) ==
    /\ err' = e
    /\ exitCode' = 1
    /\ pc' = "exited"

(* ------------------------------- startup ------------------------------ *)
\* variant: the help flag is not honoured
ParseFlagsIgnoringHelp ==
    /\ pc = "flags"
    /\ pc' = "config"
    /\ UNCHANGED <<help, env, config, tagRegexp, usage>>
    /\ UNCHANGED <<err, exitCode, stdout, slept>>
    /\ UNCHANGED <<mostRecentImagePushedAt, imageIDs, nextToken, imageDetails,
                   currentMostRecentImagePushedAt, currentMostRecentImageTags>>
    /\ UNCHANGED <<cycle, calls, served, storedBefore, firstObserved, everMatched>>

\* main.go 27-33
ShowUsage ==
    /\ pc = "flags"
    /\ help
    /\ usage' = TRUE
    /\ exitCode' = 0
    /\ pc' = "exited"
    /\ UNCHANGED <<help, env, config, tagRegexp, err, stdout, slept>>
    /\ UNCHANGED <<loopVars, historyVars>>

ParseFlags ==
    /\ pc = "flags"
    /\ ~help
    /\ pc' = "config"
    /\ UNCHANGED <<startupVars, err, exitCode, stdout, slept, loopVars, historyVars>>

\* main.go 35-38
ProcessConfigFail ==
    /\ pc = "config"
    /\ ~ProcessOK(env)
    /\ Fatal("config")
    /\ UNCHANGED <<startupVars, stdout, slept, loopVars, historyVars>>

ProcessConfig ==
    /\ pc = "config"
    /\ ProcessOK(env)
    /\ config' = Processed(env)
    /\ pc' = "compile"
    /\ UNCHANGED <<help, env, tagRegexp, usage, err, exitCode, stdout, slept>>
    /\ UNCHANGED <<loopVars, historyVars>>

\* main.go 40-43
CompileRegexpFail ==
    /\ pc = "compile"
    /\ ~CompileOK(config.TagPattern)
    /\ Fatal("regexp")
    /\ UNCHANGED <<startupVars, stdout, slept, loopVars, historyVars>>

CompileRegexp ==
    /\ pc = "compile"
    /\ CompileOK(config.TagPattern)
    /\ tagRegexp' = Compile(config.TagPattern)
    /\ pc' = "session"
    /\ UNCHANGED <<help, env, config, usage, err, exitCode, stdout, slept>>
    /\ UNCHANGED <<loopVars, historyVars>>

\* main.go 45-56
NewSessionFail ==
    /\ pc = "session"
    /\ Fatal("session")
    /\ UNCHANGED <<startupVars, stdout, slept, loopVars, historyVars>>

\* main.go 53-60
NewSession ==
    /\ pc = "session"
    /\ mostRecentImagePushedAt' = ZeroTime
    /\ pc' = "loop"
    /\ UNCHANGED <<startupVars, err, exitCode, stdout, slept, historyVars>>
    /\ UNCHANGED <<imageIDs, nextToken, imageDetails,
                   currentMostRecentImagePushedAt, currentMostRecentImageTags>>

(* ------------------------------ poll loop ----------------------------- *)
ListCall(sent, returned, ok) ==
    [op |-> "ListImages", sent |-> sent, returned |-> returned,
     imageIds |-> <<>>, ok |-> ok]
DescribeCall(ids, ok) ==
    [op |-> "DescribeImages", sent |-> NilPtr, returned |-> NilPtr,
     imageIds |-> ids, ok |-> ok]

\* variant: the identifiers of the previous cycle are kept
BeginCycleKeepingIds ==
    /\ pc = "loop"
    /\ cycle < MaxCycles
    /\ nextToken' = NilPtr
    /\ cycle' = cycle + 1
    /\ calls' = <<>>
    /\ served' = <<>>
    /\ pc' = "list"
    /\ UNCHANGED <<startupVars, err, exitCode, stdout, slept, storedBefore, firstObserved, everMatched>>
    /\ UNCHANGED <<mostRecentImagePushedAt, imageIDs, imageDetails,
                   currentMostRecentImagePushedAt, currentMostRecentImageTags>>

\* main.go 61-65: a new cycle starts with fresh imageIDs and listImagesInput
BeginCycle ==
    /\ pc = "loop"
    /\ cycle < MaxCycles
    /\ imageIDs' = <<>>
    /\ nextToken' = NilPtr
    /\ cycle' = cycle + 1
    /\ calls' = <<>>
    /\ served' = <<>>
    /\ pc' = "list"
    /\ UNCHANGED <<startupVars, err, exitCode, stdout, slept, storedBefore, firstObserved, everMatched>>
    /\ UNCHANGED <<mostRecentImagePushedAt, imageDetails,
                   currentMostRecentImagePushedAt, currentMostRecentImageTags>>

\* main.go 74: the test that keeps an identifier
KeepsTag(re, id) == MatchString(re, StringValue(id.imageTag))

\* main.go 73-78
RECURSIVE AppendMatching(_, _, _)
AppendMatching(acc, page, re) ==
    IF page = <<>> THEN acc
    ELSE AppendMatching(IF KeepsTag(re, Head(page)) THEN Append(acc, Head(page)) ELSE acc,
                        Tail(page), re)

\* variant: the returned token is not carried into the next request
NextInputStale(token, returned) == token

\* main.go 80-84: the token of the next request
NextInput(token, returned) == IF returned # NilPtr THEN returned ELSE token

\* variant: a failed ListImages call is retried
ListImagesRetry ==
    /\ pc = "list"
    /\ calls' = Append(calls, ListCall(nextToken, NilPtr, FALSE))
    /\ err' = "list"
    /\ UNCHANGED <<pc, exitCode, startupVars, stdout, slept, loopVars>>
    /\ UNCHANGED <<cycle, served, storedBefore, firstObserved, everMatched>>

\* main.go 68-71
ListImagesFail ==
    /\ pc = "list"
    /\ calls' = Append(calls, ListCall(nextToken, NilPtr, FALSE))
    /\ Fatal("list")
    /\ UNCHANGED <<startupVars, stdout, slept, loopVars>>
    /\ UNCHANGED <<cycle, served, storedBefore, firstObserved, everMatched>>

\* main.go 68-85: one page; the registry returns a continuation token with
\* every page but the last
ListImages ==
    /\ pc = "list"
    /\ \E page \in Pages, more \in BOOLEAN :
        LET returned == IF more THEN Ptr(Len(served) + 1) ELSE NilPtr
        IN /\ more => Len(served) + 1 < MaxPages
           /\ calls' = Append(calls, ListCall(nextToken, returned, TRUE))
           /\ served' = Append(served, page)
           /\ imageIDs' = AppendMatching(imageIDs, page, tagRegexp)
           /\ everMatched' = (everMatched \/ AppendMatching(<<>>, page, tagRegexp) # <<>>)
           /\ nextToken' = NextInput(nextToken, returned)
           /\ pc' = IF returned # NilPtr THEN "list" ELSE "describe"
    /\ UNCHANGED <<startupVars, err, exitCode, stdout, slept, cycle, storedBefore, firstObserved>>
    /\ UNCHANGED <<mostRecentImagePushedAt, imageDetails,
                   currentMostRecentImagePushedAt, currentMostRecentImageTags>>

\* main.go 87-95
DescribeImagesFail ==
    /\ pc = "describe"
    /\ calls' = Append(calls, DescribeCall(imageIDs, FALSE))
    /\ Fatal("describe")
    /\ UNCHANGED <<startupVars, stdout, slept, loopVars>>
    /\ UNCHANGED <<cycle, served, storedBefore, firstObserved, everMatched>>

DescribeImages ==
    /\ pc = "describe"
    /\ calls' = Append(calls, DescribeCall(imageIDs, TRUE))
    /\ imageDetails' \in Answers(imageIDs)
    /\ pc' = "select"
    /\ UNCHANGED <<startupVars, err, exitCode, stdout, slept>>
    /\ UNCHANGED <<cycle, served, storedBefore, firstObserved, everMatched>>
    /\ UNCHANGED <<mostRecentImagePushedAt, imageIDs, nextToken,
                   currentMostRecentImagePushedAt, currentMostRecentImageTags>>

\* variant: a detail with an equal timestamp replaces the candidate
NewerOrEqual(pushedAt, candidate) == pushedAt >= candidate

\* main.go 100: the test that replaces the candidate
Newer(pushedAt, candidate) == After(pushedAt, candidate)

\* variant: the tags of the new candidate are added to those recorded
ReplacedAccumulating(cand, detail) ==
    [pushedAt |-> detail.imagePushedAt, tags |-> cand.tags \o detail.imageTags]

\* main.go 101-102: the candidate taken from a detail
Replaced(cand, detail) ==
    [pushedAt |-> detail.imagePushedAt, tags |-> detail.imageTags]

\* main.go 99-104: the candidate after the details ds, starting from cand
RECURSIVE Newest(_, _)
Newest(ds, cand) ==
    IF ds = <<>> THEN cand
    ELSE Newest(Tail(ds),
                IF Newer(Head(ds).imagePushedAt, cand.pushedAt)
                THEN Replaced(cand, Head(ds))
                ELSE cand)

\* main.go 97-104
SelectNewest ==
    /\ pc = "select"
    /\ LET sel == Newest(imageDetails, [pushedAt |-> ZeroTime, tags |-> <<>>])
       IN /\ currentMostRecentImagePushedAt' = sel.pushedAt
          /\ currentMostRecentImageTags' = sel.tags
    /\ pc' = "compare"
    /\ UNCHANGED <<startupVars, err, exitCode, stdout, slept, historyVars>>
    /\ UNCHANGED <<mostRecentImagePushedAt, imageIDs, nextToken, imageDetails>>

\* variant: the comparison is made the wrong way round
ChangeDetectedReversed(stored, current) == ~IsZero(stored) /\ After(stored, current)

\* variant: an equal timestamp counts as a change
ChangeDetectedNotBefore(stored, current) == ~IsZero(stored) /\ current >= stored

\* variant: the stored timestamp is not tested for zero
ChangeDetectedNoZeroTest(stored, current) == After(current, stored)

\* main.go 106: the condition of the successful exit
ChangeDetected(stored, current) == ~IsZero(stored) /\ After(current, stored)

\* variant: a newline is written after the string
FmtPrintln(out, str) == Append(out, str \o <<"\n">>)

\* main.go 108: fmt.Print appends its argument to standard output
FmtPrint(out, str) == Append(out, str)

\* main.go 106-110
Detect ==
    /\ pc = "compare"
    /\ ChangeDetected(mostRecentImagePushedAt, currentMostRecentImagePushedAt)
    /\ stdout' = FmtPrint(stdout, Join(currentMostRecentImageTags))
    /\ storedBefore' = mostRecentImagePushedAt
    /\ firstObserved' = IF cycle = 1 THEN currentMostRecentImagePushedAt ELSE firstObserved
    /\ exitCode' = 0
    /\ pc' = "exited"
    /\ UNCHANGED <<startupVars, err, slept, loopVars>>
    /\ UNCHANGED <<cycle, calls, served, everMatched>>

\* variant: the stored timestamp is kept when the current one is earlier
StoredLatest(stored, current) == IF After(stored, current) THEN stored ELSE current

\* main.go 112: the value stored for the next cycle
Stored(stored, current) == current

\* variant: the next cycle starts without the sleep
RecordWithoutSleep ==
    /\ pc = "compare"
    /\ ~ChangeDetected(mostRecentImagePushedAt, currentMostRecentImagePushedAt)
    /\ mostRecentImagePushedAt' = Stored(mostRecentImagePushedAt, currentMostRecentImagePushedAt)
    /\ storedBefore' = mostRecentImagePushedAt
    /\ firstObserved' = IF cycle = 1 THEN currentMostRecentImagePushedAt ELSE firstObserved
    /\ pc' = "loop"
    /\ UNCHANGED <<startupVars, err, exitCode, stdout, slept>>
    /\ UNCHANGED <<cycle, calls, served, everMatched>>
    /\ UNCHANGED <<imageIDs, nextToken, imageDetails,
                   currentMostRecentImagePushedAt, currentMostRecentImageTags>>

\* main.go 106, 112-113
Record ==
    /\ pc = "compare"
    /\ ~ChangeDetected(mostRecentImagePushedAt, currentMostRecentImagePushedAt)
    /\ mostRecentImagePushedAt' = Stored(mostRecentImagePushedAt, currentMostRecentImagePushedAt)
    /\ storedBefore' = mostRecentImagePushedAt
    /\ firstObserved' = IF cycle = 1 THEN currentMostRecentImagePushedAt ELSE firstObserved
    /\ pc' = "sleep"
    /\ UNCHANGED <<startupVars, err, exitCode, stdout, slept>>
    /\ UNCHANGED <<cycle, calls, served, everMatched>>
    /\ UNCHANGED <<imageIDs, nextToken, imageDetails,
                   currentMostRecentImagePushedAt, currentMostRecentImageTags>>

\* variant: the default interval is slept, whatever is configured
SleepForDefault(cfg) == ParseDuration(DefaultInterval)

\* main.go 115: the duration slept
SleepFor(cfg) == cfg.Interval

\* main.go 114-116
Sleep ==
    /\ pc = "sleep"
    /\ slept' = Append(slept, SleepFor(config))
    /\ pc' = "loop"
    /\ UNCHANGED <<startupVars, err, exitCode, stdout, loopVars, historyVars>>

Next ==
    \/ ShowUsage
    \/ ParseFlags
    \/ ProcessConfigFail
    \/ ProcessConfig
    \/ CompileRegexpFail
    \/ CompileRegexp
    \/ NewSessionFail
    \/ NewSession
    \/ BeginCycle
    \/ ListImagesFail
    \/ ListImages
    \/ DescribeImagesFail
    \/ DescribeImages
    \/ SelectNewest
    \/ Detect
    \/ Record
    \/ Sleep

Spec == Init /\ [][Next]_vars

(* ------------------------- derived predicates ------------------------- *)
\* the process returned from main at line 109
Detected == pc = "exited" /\ exitCode = 0 /\ ~usage

\* the comparison of the current cycle has been made
Compared == pc = "sleep" \/ Detected

\* the guard of line 106 treats the stored timestamp as set
PriorIsSet == ~IsZero(mostRecentImagePushedAt)

\* the last registry call of this cycle returned an error
FailedCall == calls # <<>> /\ ~calls[Len(calls)].ok

RECURSIVE Flatten(_)
Flatten(pages) == IF pages = <<>> THEN <<>> ELSE Head(pages) \o Flatten(Tail(pages))

Max(a, b) == IF a >= b THEN a ELSE b

(* ------------------------------- claims ------------------------------- *)
\* C1 (as claimed): the comparison of a poll cycle ends the process with
\* success if and only if the cycle's newest timestamp is strictly later
\* than the stored one and the cycle is the second or a later one, whatever
\* the stored timestamp is (zero included).
C1_ExitIffLaterFromSecondCycle ==
    Compared =>
        (Detected <=> (After(currentMostRecentImagePushedAt, storedBefore) /\ cycle >= 2))

\* C2 (as claimed): the first poll cycle never ends the process with
\* success, and once it is over the prior state counts as set, also when
\* the cycle observed the zero timestamp.
C2_FirstPollMakesSteady ==
    /\ cycle = 1 => ~Detected
    /\ (cycle = 1 /\ pc \in {"sleep", "loop"}) => PriorIsSet

\* C3 (as claimed): the stored timestamp never decreases: the value left by
\* a comparison is never earlier than the value before it.
C3_StoredNeverDecreases == mostRecentImagePushedAt >= storedBefore

\* C3 (amended): a non-terminating comparison stores the cycle's newest
\* timestamp, and a stored non-zero timestamp never moves forward: it moves
\* forward only from zero.
C3_StoredMovesForwardOnlyFromZero ==
    /\ pc = "sleep" => mostRecentImagePushedAt = currentMostRecentImagePushedAt
    /\ After(mostRecentImagePushedAt, storedBefore) => IsZero(storedBefore)

C3_Witness ==
    /\ pc = "sleep"
    /\ ~IsZero(storedBefore)
    /\ After(storedBefore, mostRecentImagePushedAt)

\* the first detail that carries the latest push timestamp
FirstLatest(ds, i) ==
    /\ \A j \in 1..Len(ds) : ds[j].imagePushedAt <= ds[i].imagePushedAt
    /\ \A j \in 1..(i - 1) : ds[j].imagePushedAt < ds[i].imagePushedAt

C5_RegistryErrorIsFatal ==
    [][/\ FailedCall' =>
            \/ FailedCall
            \/ /\ pc' = "exited"
               /\ exitCode' = 1
               /\ UNCHANGED <<mostRecentImagePushedAt, slept, stdout>>
       /\ FailedCall => UNCHANGED vars]_vars

C5_Witness ==
    /\ FailedCall
    /\ pc = "exited"
    /\ cycle >= 2
    /\ imageIDs # <<>>
    /\ PriorIsSet

\* an identifier the listing is meant to keep: its tag is present, non-empty
\* and matches the pattern
Wanted(id) ==
    /\ id.imageTag # NilPtr
    /\ StringValue(id.imageTag) # <<>>
    /\ MatchString(tagRegexp, StringValue(id.imageTag))

\* C6 (as claimed): the accumulated identifiers are exactly the listed ones
\* whose tag is non-empty and matches the pattern.
C6_KeptIffNonEmptyAndMatching == imageIDs = SelectSeq(Flatten(served), Wanted)

\* the list calls of this cycle
ListCalls == SelectSeq(calls, LAMBDA c : c.op = "ListImages")
DescribeCalls == SelectSeq(calls, LAMBDA c : c.op = "DescribeImages")
Keeps(id) == KeepsTag(tagRegexp, id)

\* C7: the list calls of a cycle chain the continuation tokens, one call per
\* page; the matching identifiers of all pages are accumulated once each in
\* page order; DescribeImages is called once, after the page without token,
\* with exactly the accumulated identifiers.
C7_PaginationAccumulatesAllPages ==
    /\ ~FailedCall =>
        /\ Len(ListCalls) = Len(served)
        /\ imageIDs = SelectSeq(Flatten(served), Keeps)
    /\ \A i \in 1..Len(ListCalls) :
        /\ calls[i] = ListCalls[i]
        /\ ListCalls[i].sent = IF i = 1 THEN NilPtr ELSE ListCalls[i - 1].returned
        /\ i < Len(ListCalls) => ListCalls[i].returned # NilPtr
    /\ pc = "describe" => ListCalls[Len(ListCalls)].returned = NilPtr
    /\ Len(DescribeCalls) <= 1
    /\ DescribeCalls # <<>> =>
        /\ ListCalls[Len(ListCalls)].returned = NilPtr
        /\ DescribeCalls[1].imageIds = SelectSeq(Flatten(served), Keeps)

C7_Witness ==
    /\ pc = "select"
    /\ Len(served) = 2
    /\ Len(ListCalls) = 2
    /\ Len(imageIDs) = 4
    /\ imageIDs[1] # imageIDs[3]

\* the latest push timestamp among ds, zero for none
RECURSIVE Latest(_)
Latest(ds) == IF ds = <<>> THEN ZeroTime ELSE Max(Head(ds).imagePushedAt, Latest(Tail(ds)))

\* the selection of the current cycle has been made
Selected == pc = "compare" \/ Compared

\* C8: after selection the candidate timestamp is the latest of the details
\* (zero for none), and the candidate tags are those of the first detail
\* that carries it; they are empty when that timestamp is zero.
C8_NewestSelectionIsStrict ==
    Selected =>
        /\ currentMostRecentImagePushedAt = Latest(imageDetails)
        /\ IsZero(Latest(imageDetails)) => currentMostRecentImageTags = <<>>
        /\ ~IsZero(Latest(imageDetails)) =>
            \E i \in 1..Len(imageDetails) :
                /\ FirstLatest(imageDetails, i)
                /\ currentMostRecentImageTags = imageDetails[i].imageTags

C8_Witness ==
    /\ pc = "compare"
    /\ Len(imageDetails) >= 2
    /\ imageDetails[1].imagePushedAt = imageDetails[2].imagePushedAt
    /\ imageDetails[1].imagePushedAt = currentMostRecentImagePushedAt
    /\ ~IsZero(currentMostRecentImagePushedAt)
    /\ currentMostRecentImageTags = imageDetails[1].imageTags
    /\ imageDetails[1].imageTags # imageDetails[2].imageTags

\* the poll cycles completed, sleep included
Completed == IF pc = "loop" THEN cycle ELSE IF cycle = 0 THEN 0 ELSE cycle - 1

\* C9: as long as no identifier has matched since the start and no call has
\* failed, the stored timestamp is zero, the process has not exited, and
\* every completed cycle was followed by one sleep of the configured
\* interval.
C9_NoMatchKeepsPolling ==
    (cycle >= 1 /\ ~everMatched /\ err = "nil") =>
        /\ IsZero(mostRecentImagePushedAt)
        /\ pc # "exited"
        /\ slept = [i \in 1..Completed |-> config.Interval]

C9_Witness ==
    /\ cycle = 3
    /\ ~everMatched
    /\ pc = "sleep"
    /\ Len(served) = 2
    /\ slept = <<1, 1>>

\* the startup rejects the run: usage asked for, configuration that does
\* not resolve, or a pattern that does not compile
BadConfig == ~ProcessOK(env)
BadPattern == ~CompileOK(Lookup(env.TagPattern, DefaultTagPattern))

\* C10: with the help flag, an unresolvable configuration or a pattern that
\* does not compile, no poll cycle starts and no registry call is made; the
\* exit status is 0 for help and 1 for the other two.
C10_NoRegistryCallOnRejectedStartup ==
    (help \/ BadConfig \/ BadPattern) =>
        /\ cycle = 0
        /\ calls = <<>>
        /\ pc \in {"flags", "config", "compile", "exited"}
        /\ pc = "exited" => exitCode = (IF help THEN 0 ELSE 1)

C10_Witness ==
    /\ ~help
    /\ ~BadConfig
    /\ BadPattern
    /\ pc = "exited"
    /\ err = "regexp"

\* C11 (as claimed): the timestamp of the image printed by a successful
\* exit is strictly later than the newest timestamp of the first poll cycle.
C11_ExitLaterThanFirstObserved ==
    Detected => After(currentMostRecentImagePushedAt, firstObserved)

\* C11 (amended): a successful exit happens in the second or a later cycle
\* and prints the tags of a detail whose timestamp is strictly later than
\* the non-zero timestamp stored by the cycle before it.
C11_ExitLaterThanStored ==
    Detected =>
        /\ cycle >= 2
        /\ ~IsZero(storedBefore)
        /\ After(currentMostRecentImagePushedAt, storedBefore)
        /\ \E i \in 1..Len(imageDetails) :
            /\ imageDetails[i].imagePushedAt = currentMostRecentImagePushedAt
            /\ stdout = <<Join(imageDetails[i].imageTags)>>

C11_Witness ==
    /\ Detected
    /\ ~IsZero(firstObserved)
    /\ currentMostRecentImagePushedAt = firstObserved
    /\ After(firstObserved, storedBefore)

\* C12: a cycle that does not terminate leaves the cycle's newest timestamp
\* as the stored one, whether it is later than, equal to or earlier than the
\* value stored before; a cycle that terminates stores nothing.
C12_RecordIsUnconditional ==
    /\ (cycle >= 1 /\ pc \in {"sleep", "loop"}) =>
            mostRecentImagePushedAt = currentMostRecentImagePushedAt
    /\ Detected => mostRecentImagePushedAt = storedBefore

C12_Witness ==
    /\ pc = "loop"
    /\ cycle = 2
    /\ ~IsZero(mostRecentImagePushedAt)
    /\ After(storedBefore, mostRecentImagePushedAt)
    /\ mostRecentImagePushedAt = currentMostRecentImagePushedAt

\* C13: the recorded tag list is the whole tag list of one detail, the one
\* that gave the candidate timestamp (empty when nothing was selected), and
\* a successful exit prints exactly that list.
C13_TagsOfOneDetail ==
    /\ Selected =>
        \/ /\ IsZero(currentMostRecentImagePushedAt)
           /\ currentMostRecentImageTags = <<>>
        \/ \E i \in 1..Len(imageDetails) :
            /\ imageDetails[i].imagePushedAt = currentMostRecentImagePushedAt
            /\ currentMostRecentImageTags = imageDetails[i].imageTags
    /\ Detected => stdout = <<Join(currentMostRecentImageTags)>>

\* a later detail replaced an earlier candidate that had tags of its own,
\* and the exit printed the tags of the later detail alone
C13_Witness ==
    /\ Detected
    /\ Len(imageDetails) >= 2
    /\ ~IsZero(imageDetails[1].imagePushedAt)
    /\ imageDetails[1].imageTags = <<TagA, TagB>>
    /\ After(imageDetails[2].imagePushedAt, imageDetails[1].imagePushedAt)
    /\ currentMostRecentImageTags = imageDetails[2].imageTags
    /\ stdout = <<TagAB>>

\* the order of the steps of a poll cycle
Flow ==
    {<<"loop", "list">>, <<"list", "list">>, <<"list", "describe">>,
     <<"describe", "select">>, <<"select", "compare">>, <<"compare", "sleep">>,
     <<"compare", "exited">>, <<"sleep", "loop">>,
     <<"list", "exited">>, <<"describe", "exited">>}

InCycle == pc \in {"list", "describe", "select", "compare", "sleep"}

\* a step that makes a registry call
CallStep == Len(calls') = Len(calls) + 1

\* C14: the steps of a cycle follow the order list, describe, select,
\* compare, then exit or sleep. Registry calls are made only while listing
\* or describing; the one describe call follows the list call that returned
\* no token; the one sleep of a cycle follows the update of the stored
\* timestamp; a successful exit is preceded by no sleep in its cycle.
C14_CycleOrder ==
    [][/\ InCycle => <<pc, pc'>> \in Flow
       /\ CallStep =>
            /\ pc \in {"list", "describe"}
            /\ calls'[Len(calls')].op = (IF pc = "list" THEN "ListImages" ELSE "DescribeImages")
            /\ pc = "describe" =>
                /\ DescribeCalls = <<>>
                /\ calls[Len(calls)].op = "ListImages"
                /\ calls[Len(calls)].returned = NilPtr
       /\ (pc = "describe" /\ pc' = "select") => CallStep
       /\ slept' # slept =>
            /\ pc = "sleep"
            /\ Len(slept) = cycle - 1
            /\ Len(slept') = cycle
            /\ mostRecentImagePushedAt = currentMostRecentImagePushedAt
            /\ mostRecentImagePushedAt' = mostRecentImagePushedAt
       /\ (pc = "sleep" /\ pc' = "loop") => slept' # slept
       /\ (pc = "compare" /\ pc' = "exited") =>
            /\ exitCode' = 0
            /\ Len(slept') = cycle - 1
            /\ Len(DescribeCalls) = 1]_vars

C14_Witness ==
    /\ pc = "loop"
    /\ cycle = 2
    /\ Len(slept) = 2
    /\ Len(ListCalls) = 2
    /\ Len(DescribeCalls) = 1
    /\ calls[3].op = "DescribeImages"

\* The process is one thread of control that runs until it exits: a step
\* that can be taken is eventually taken. Fair runs are explored for the
\* anchored default pattern, the unanchored pattern a and the pattern that
\* does not compile.
FairInit == Init /\ env.TagPattern \in {NilPtr, Ptr(<<"a">>), Ptr(<<"*">>)}

FairSpec == FairInit /\ [][Next]_vars /\ WF_vars(Next)

\* the poll cycle ended without a later timestamp: the value was recorded
RecordedNotLater ==
    pc = "sleep" /\ ~After(currentMostRecentImagePushedAt, storedBefore)

\* C15: once polling, the process exits only by a failed registry call or
\* by detecting a timestamp strictly later than a non-zero stored one; and
\* every poll started with a non-zero stored timestamp ends: in the
\* successful exit, unless a call fails or the poll observes no strictly
\* later timestamp (which it then records).
C15_LoopEndsOnlyAndWhenChanged ==
    /\ []((pc = "exited" /\ cycle >= 1) =>
            \/ FailedCall
            \/ /\ Detected
               /\ ~IsZero(storedBefore)
               /\ After(currentMostRecentImagePushedAt, storedBefore))
    /\ ((pc = "list" /\ PriorIsSet) ~> (Detected \/ FailedCall \/ RecordedNotLater))

C15_Witness ==
    /\ Detected
    /\ cycle = 3
    /\ Len(slept) = 2
    /\ Len(ListCalls) = 2

\* C16: a comparison made with a zero stored timestamp never exits, in
\* whatever cycle and whatever the cycle observed: it records the observed
\* timestamp.
C16_ZeroStoredNeverExits ==
    (Compared /\ IsZero(storedBefore)) =>
        /\ pc = "sleep"
        /\ exitCode = -1
        /\ stdout = <<>>
        /\ mostRecentImagePushedAt = currentMostRecentImagePushedAt

\* the first cycle observed an image, the second none (the stored timestamp
\* went back to zero), the third observes an image again and only records it
C16_Witness ==
    /\ pc = "sleep"
    /\ cycle = 3
    /\ ~IsZero(firstObserved)
    /\ IsZero(storedBefore)
    /\ ~IsZero(currentMostRecentImagePushedAt)

\* the timestamps and tag lists of the details ds
TimesOf(ds) == {ds[i].imagePushedAt : i \in 1..Len(ds)}
TagListsOf(ds) == {ds[i].imageTags : i \in 1..Len(ds)}

\* C17: a cycle starts its listing with no token and no identifier; the
\* identifiers described are among those listed in the same cycle; the
\* candidate compared, stored and printed comes from the details of the same
\* cycle, or is the zero timestamp with no tags.
C17_NothingCarriedButStored ==
    /\ (pc = "list" /\ calls = <<>>) => (imageIDs = <<>> /\ nextToken = NilPtr /\ served = <<>>)
    /\ (InCycle /\ ~FailedCall) => Range(imageIDs) \subseteq Range(Flatten(served))
    /\ \A k \in 1..Len(calls) :
        /\ calls[k].op = "DescribeImages" =>
                Range(calls[k].imageIds) \subseteq Range(Flatten(served))
        /\ (calls[k].op = "ListImages" /\ k = 1) => calls[k].sent = NilPtr
    /\ Selected =>
        /\ currentMostRecentImagePushedAt \in TimesOf(imageDetails) \cup {ZeroTime}
        /\ currentMostRecentImageTags \in TagListsOf(imageDetails) \cup {<<>>}
        /\ imageDetails \in Answers(imageIDs)
    /\ Detected => stdout = <<Join(currentMostRecentImageTags)>>

\* the first cycle matched and selected tags; the second lists nothing that
\* matches, describes nothing and selects nothing
C17_Witness ==
    /\ cycle = 2
    /\ pc = "compare"
    /\ everMatched
    /\ PriorIsSet
    /\ imageIDs = <<>>
    /\ calls[Len(calls)].imageIds = <<>>
    /\ currentMostRecentImageTags = <<>>
    /\ IsZero(currentMostRecentImagePushedAt)
====
